---- MODULE Spec2Model ----
(***************************************************************************)
(* CfdRunnableFoam (CfdRunnableFoam.py): the parser of the solver log.     *)
(* get_solver_cmd resets the residual and monitor series and creates the   *)
(* plotters; process_output splits a chunk of solver output into lines,    *)
(* counts the "Time = " lines, appends the decoded residuals and monitor   *)
(* values to their series and then updates the plotters.                   *)
(***************************************************************************)
EXTENDS Integers, Sequences, FiniteSets, TLC

\* Largest value of niter the model explores.
MaxIter == 3
\* Largest number of lines in one chunk handed to process_output.
MaxChunk == 2

(***************************************************************************)
(* Text.  A token (an element of line.split()) is a sequence of atoms: the *)
(* characters "(", ")" and "," are atoms of their own, a digit is an atom, *)
(* and a run of other characters is kept as one atom.                      *)
(***************************************************************************)
Digits == {"1", "2"}

\* The digit's value.
DigitValue(d) == IF d = "1" THEN 1 ELSE 2

\* s.split(',')[0]: the text before the first comma.
RECURSIVE SplitComma0(_)
SplitComma0(s) ==
    IF s = <<>> \/ Head(s) = "," THEN <<>>
    ELSE <<Head(s)>> \o SplitComma0(Tail(s))

\* s.lstrip('('): every leading "(" removed.
RECURSIVE LStripParen(_)
LStripParen(s) ==
    IF s # <<>> /\ Head(s) = "(" THEN LStripParen(Tail(s)) ELSE s

\* s.rstrip(')'): every trailing ")" removed.
RECURSIVE RStripParen(_)
RStripParen(s) ==
    IF s # <<>> /\ s[Len(s)] = ")" THEN RStripParen(SubSeq(s, 1, Len(s) - 1))
    ELSE s

\* s.replace(c, ""): every occurrence of the character c removed.
RECURSIVE Remove(_, _)
Remove(s, c) ==
    IF s = <<>> THEN <<>>
    ELSE IF Head(s) = c THEN Remove(Tail(s), c)
    ELSE <<Head(s)>> \o Remove(Tail(s), c)

\* float(s) succeeds: s is a decimal literal (here, a non-empty run of digits).
IsFloat(s) == s # <<>> /\ \A i \in 1..Len(s) : s[i] \in Digits

\* float(s), for a literal s.
RECURSIVE FloatOf(_)
FloatOf(s) ==
    IF s = <<>> THEN 0
    ELSE 10 * FloatOf(SubSeq(s, 1, Len(s) - 1)) + DigitValue(s[Len(s)])

\* The text handed to float() by each decode expression of the loop:
\* "split0" is tok.split(',')[0], "lstrip" is tok.lstrip('('), "rstrip" is
\* tok.rstrip(')'), "noopen" is tok.replace("(", ""), "noclose" is
\* tok.replace(")", ""), and "plain" is tok itself.
Convert(rule, tok) ==
    CASE rule = "split0"   -> SplitComma0(tok)
      [] rule = "lstrip"   -> LStripParen(tok)
      [] rule = "rstrip"   -> RStripParen(tok)
      [] rule = "noopen"   -> Remove(tok, "(")
      [] rule = "noclose"  -> Remove(tok, ")")
      [] OTHER             -> tok

\* tok in split
In(tok, split) == \E i \in 1..Len(split) : split[i] = tok

\* line.startswith("Time = "): nothing before "Time", one blank on each side
\* of "=", and either a further token or a trailing blank.
StartsWithTime(line) ==
    /\ ~line.indent
    /\ Len(line.split) >= 2
    /\ line.split[1] = <<"Time">>
    /\ line.split[2] = <<"=">>
    /\ (Len(line.split) >= 3 \/ line.trail)

(***************************************************************************)
(* The state of a CfdRunnableFoam object.                                  *)
(***************************************************************************)
VARIABLES
    niter,                 \* self.niter
    series,                \* the twenty lists self.<name>, keyed by <name>
    forces_plot,           \* self.forces_plot
    force_coeffs_plot,     \* self.force_coeffs_plot
    residual_plotter,      \* self.residual_plotter
    forces_plotter,        \* self.forces_plotter
    force_coeffs_plotter,  \* self.force_coeffs_plotter
    solver,                \* the kind of log the run started last produces
    op,                    \* the method called last
    raised,                \* the exception the last call raised, or "none"
    updated,               \* the updateResiduals calls of the last call, in order
    history,               \* whether `since` is recorded in this behaviour
    since,                 \* per series: values appended since the last "Time = " line
    wellformed,            \* every line fed since the reset decodes everywhere
    fed,                   \* the lines fed since the reset, while they follow a scenario
    discarded              \* the last call was a get_solver_cmd that found niter > 0 and values in the lists

vars == <<niter, series, forces_plot, force_coeffs_plot, residual_plotter,
          forces_plotter, force_coeffs_plotter, solver, op, raised, updated,
          history, since, wellformed, fed, discarded>>

\* The lists created by initResiduals, in the order of the residual plot.
ResidualNames ==
    <<"rhoResiduals", "UxResiduals", "UyResiduals", "UzResiduals", "pResiduals",
      "EResiduals", "kResiduals", "epsilonResiduals", "nuTildaResiduals",
      "omegaResiduals", "gammaIntResiduals", "ReThetatResiduals">>

\* The force lists created by initMonitors, in the order of the forces plot.
ForceNames ==
    <<"pressureXResiduals", "pressureYResiduals", "pressureZResiduals",
      "viscousXResiduals", "viscousYResiduals", "viscousZResiduals">>

\* The coefficient lists created by initMonitors, in the order of their plot.
CoeffNames == <<"cdResiduals", "clResiduals">>

Range(s) == {s[i] : i \in 1..Len(s)}

SeriesNames == Range(ResidualNames) \cup Range(ForceNames) \cup Range(CoeffNames)

\* initResiduals and initMonitors: every list empty.
EmptySeries == [n \in SeriesNames |-> <<>>]

(***************************************************************************)
(* The body of the loop of process_output.  st is the object's state while *)
(* the loop runs: [niter, series, raised, since]; once raised is set the   *)
(* exception is propagating and nothing more is executed.                  *)
(***************************************************************************)

\* Guard with the counter itself as the limit: self.niter > len(self.<name>).
GuardNoLag(st, name) == st.niter > Len(st.series[name])

\* The lag guard of every trigger: self.niter-1 > len(self.<name>).
Guard(st, name) == st.niter - 1 > Len(st.series[name])

\* AppendFloat with insert(0, ...) in place of append(...).
AppendFloatFront(st, name, split, pos, rule) ==
    IF st.raised # "none" THEN st
    ELSE IF pos >= Len(split) THEN [st EXCEPT !.raised = "IndexError"]
    ELSE LET s == Convert(rule, split[pos + 1])
         IN  IF ~IsFloat(s) THEN [st EXCEPT !.raised = "ValueError"]
             ELSE [st EXCEPT !.series[name] = <<FloatOf(s)>> \o @]

\* AppendFloat with the list rebound to the new value alone.
AppendFloatAssign(st, name, split, pos, rule) ==
    IF st.raised # "none" THEN st
    ELSE IF pos >= Len(split) THEN [st EXCEPT !.raised = "IndexError"]
    ELSE LET s == Convert(rule, split[pos + 1])
         IN  IF ~IsFloat(s) THEN [st EXCEPT !.raised = "ValueError"]
             ELSE [st EXCEPT !.series[name] = <<FloatOf(s)>>]

\* self.<name>.append(float(<rule>(split[pos]))): IndexError when split has no
\* item pos, ValueError when the text is no float, else the value is appended.
AppendFloat(st, name, split, pos, rule) ==
    IF st.raised # "none" THEN st
    ELSE IF pos >= Len(split) THEN [st EXCEPT !.raised = "IndexError"]
    ELSE LET s == Convert(rule, split[pos + 1])
         IN  IF ~IsFloat(s) THEN [st EXCEPT !.raised = "ValueError"]
             ELSE [st EXCEPT !.series[name] = Append(@, FloatOf(s))]

\* TimeStep testing the tokens of the line in place of its prefix.
TimeStepTokens(st, line) ==
    IF /\ Len(line.split) >= 2
       /\ line.split[1] = <<"Time">>
       /\ line.split[2] = <<"=">>
    THEN [st EXCEPT !.niter = @ + 1]
    ELSE st

\* if line.startswith(u"Time = "): self.niter += 1
TimeStep(st, line) ==
    IF StartsWithTime(line) THEN [st EXCEPT !.niter = @ + 1] ELSE st

\* Solving without the guard on the length of the list.
SolvingAlways(st, split, field, name) ==
    IF st.raised = "none" /\ In(<<field, ",">>, split)
    THEN AppendFloat(st, name, split, 7, "split0")
    ELSE st

\* if "<field>," in split and <guard of name>: append float(split[7].split(',')[0])
Solving(st, split, field, name) ==
    IF st.raised = "none" /\ In(<<field, ",">>, split) /\ Guard(st, name)
    THEN AppendFloat(st, name, split, 7, "split0")
    ELSE st

\* SolvingPrgh with the list of the next trigger as its target.
SolvingPrghOther(st, split) == Solving(st, split, "p_rgh", "EResiduals")

\* if "p_rgh," in split ...: the value goes to pResiduals.
SolvingPrgh(st, split) == Solving(st, split, "p_rgh", "pResiduals")

\* if "h," in split ...: the value goes to EResiduals.
SolvingH(st, split) == Solving(st, split, "h", "EResiduals")

\* Coupled with the items of UyResiduals and UzResiduals exchanged.
CoupledSwapped(st, split) ==
    IF st.raised = "none" /\ In(<<"Residual:">>, split) /\ Guard(st, "rhoResiduals")
    THEN LET a == AppendFloat(st, "rhoResiduals", split, 4, "plain")
             b == AppendFloat(a, "UxResiduals", split, 5, "lstrip")
             c == AppendFloat(b, "UyResiduals", split, 7, "rstrip")
             d == AppendFloat(c, "UzResiduals", split, 6, "plain")
         IN  AppendFloat(d, "EResiduals", split, 8, "plain")
    ELSE st

\* HiSA coupled residuals: guarded by rhoResiduals alone, five appends.
Coupled(st, split) ==
    IF st.raised = "none" /\ In(<<"Residual:">>, split) /\ Guard(st, "rhoResiduals")
    THEN LET a == AppendFloat(st, "rhoResiduals", split, 4, "plain")
             b == AppendFloat(a, "UxResiduals", split, 5, "lstrip")
             c == AppendFloat(b, "UyResiduals", split, 6, "plain")
             d == AppendFloat(c, "UzResiduals", split, 7, "rstrip")
         IN  AppendFloat(d, "EResiduals", split, 8, "plain")
    ELSE st

\* Force with the z component appended before the y component.
ForceZFirst(st, split, word, x, y, z) ==
    IF st.raised = "none" /\ In(<<word>>, split) /\ Guard(st, x)
    THEN LET a == AppendFloat(st, x, split, 2, "noopen")
             b == AppendFloat(a, z, split, 4, "noclose")
         IN  AppendFloat(b, y, split, 3, "plain")
    ELSE st

\* Force monitors: "Pressure" and "Viscous", guarded by the x list alone.
Force(st, split, word, x, y, z) ==
    IF st.raised = "none" /\ In(<<word>>, split) /\ Guard(st, x)
    THEN LET a == AppendFloat(st, x, split, 2, "noopen")
             b == AppendFloat(a, y, split, 3, "plain")
         IN  AppendFloat(b, z, split, 4, "noclose")
    ELSE st

\* Coeff with a value that is no float skipped instead of raising.
CoeffLenient(st, split, word, name) ==
    IF /\ st.raised = "none" /\ In(<<word>>, split)
       /\ st.niter - 1 > Len(st.series[name])
       /\ Len(split) > 2 /\ IsFloat(split[3])
    THEN [st EXCEPT !.series[name] = Append(@, FloatOf(split[3]))]
    ELSE st

\* Force coefficient monitors: "Cd" and "Cl", the value at split[2].
Coeff(st, split, word, name) ==
    IF st.raised = "none" /\ In(<<word>>, split) /\ Guard(st, name)
    THEN AppendFloat(st, name, split, 2, "plain")
    ELSE st

\* The loop body down to the "h," trigger: the counter and the six
\* single-value triggers of the segregated solvers.
Segregated(st, line) ==
    LET split == line.split
        s0  == TimeStep(st, line)
        s1  == Solving(s0, split, "Ux", "UxResiduals")
        s2  == Solving(s1, split, "Uy", "UyResiduals")
        s3  == Solving(s2, split, "Uz", "UzResiduals")
        s4  == Solving(s3, split, "p", "pResiduals")
        s5  == SolvingPrgh(s4, split)
    IN  SolvingH(s5, split)

\* The loop body down to the "Viscous" block: everything before the force
\* coefficient monitors.
Monitored(st, line) ==
    LET split == line.split
        s7  == Coupled(Segregated(st, line), split)
        s8  == Solving(s7, split, "k", "kResiduals")
        s9  == Solving(s8, split, "epsilon", "epsilonResiduals")
        s10 == Solving(s9, split, "omega", "omegaResiduals")
        s11 == Solving(s10, split, "nuTilda", "nuTildaResiduals")
        s12 == Solving(s11, split, "gammaInt", "gammaIntResiduals")
        s13 == Solving(s12, split, "ReThetat", "ReThetatResiduals")
        s14 == Force(s13, split, "Pressure", "pressureXResiduals",
                     "pressureYResiduals", "pressureZResiduals")
    IN  Force(s14, split, "Viscous", "viscousXResiduals",
              "viscousYResiduals", "viscousZResiduals")

\* One pass of the loop body over one line, the ifs in the order of the code.
ProcessLine(st, line) ==
    LET split == line.split
        s16 == Coeff(Monitored(st, line), split, "Cd", "cdResiduals")
    IN  Coeff(s16, split, "Cl", "clResiduals")

\* One executed line with the bookkeeping of `since`: a "Time = " line
\* starts a new timestep, and every value the line appended is counted.
Account(st, line) ==
    LET a == ProcessLine(st, line)
    IN  IF ~history THEN a
        ELSE [a EXCEPT !.since =
                [n \in SeriesNames |->
                    (IF StartsWithTime(line) THEN 0 ELSE st.since[n])
                    + Len(a.series[n]) - Len(st.series[n])]]

\* The loop with each line in a try block of its own: an exception ends the
\* line and the loop goes on with the next one.
RECURSIVE LoopSkip(_, _)
LoopSkip(st, lines) ==
    IF lines = <<>> THEN st
    ELSE LET a == Account([st EXCEPT !.raised = "none"], Head(lines))
             b == IF a.raised = "none" THEN [a EXCEPT !.raised = st.raised] ELSE a
         IN  LoopSkip(b, Tail(lines))

\* The loop over log_lines[:-1]: the last item of the chunk is taken for a
\* line still being written and is dropped.
RECURSIVE LoopDropLast(_, _)
LoopDropLast(st, lines) ==
    IF Len(lines) <= 1 \/ st.raised # "none" THEN st
    ELSE LoopDropLast(Account(st, Head(lines)), Tail(lines))

\* for line in log_lines: the loop, left at the first exception.
RECURSIVE Loop(_, _)
Loop(st, lines) ==
    IF lines = <<>> \/ st.raised # "none" THEN st
    ELSE Loop(Account(st, Head(lines)), Tail(lines))

\* The states of the loop: the one it starts from, then the one after each
\* line (the line an exception leaves the loop at is the last one executed).
RECURSIVE Trace(_, _)
Trace(st, lines) ==
    IF lines = <<>> \/ st.raised # "none" THEN <<st>>
    ELSE <<st>> \o Trace(Account(st, Head(lines)), Tail(lines))

(***************************************************************************)
(* After the loop: the plotters are updated when niter > 1.                *)
(***************************************************************************)

\* The labels of the three plots, in the order of the OrderedDicts.
ResidualLabels ==
    <<"$\\rho$", "$U_x$", "$U_y$", "$U_z$", "$p$", "$E$", "$k$", "$\\epsilon$",
      "$\\tilde{\\nu}$", "$\\omega$", "$\\gamma$", "$Re_{\\theta}$">>

ForceLabels ==
    <<"$Pressure_x$", "$Pressure_y$", "$Pressure_z$",
      "$Viscous_x$", "$Viscous_y$", "$Viscous_z$">>

CoeffLabels == <<"$C_D$", "$C_L$">>

\* OrderedDict([(label, self.<name>), ...]): the pairs in order.
OrderedDict(labels, names, ser) ==
    [i \in 1..Len(names) |-> <<labels[i], ser[names[i]]>>]

\* <plotter>.updateResiduals(data): the call as the plotter receives it; on a
\* plotter that is None the attribute lookup raises and no data is passed.
UpdateResiduals(attr, plotter, data) ==
    [attr |-> attr, plotter |-> plotter,
     data |-> IF plotter = "None" THEN <<>> ELSE data]

\* PlotDue from the first timestep on.
PlotDueFirst(st) == st.niter > 0

\* The condition under which the plotters are updated after the loop.
PlotDue(st) == st.niter > 1

\* Updates with the plotters updated in a finally block: after a failed loop
\* as well.
UpdatesFinally(st, rp, fp, cp) ==
    LET r == UpdateResiduals("residual_plotter", rp,
                             OrderedDict(ResidualLabels, ResidualNames, st.series))
        f == UpdateResiduals("forces_plotter", fp,
                             OrderedDict(ForceLabels, ForceNames, st.series))
        c == UpdateResiduals("force_coeffs_plotter", cp,
                             OrderedDict(CoeffLabels, CoeffNames, st.series))
    IN  IF ~PlotDue(st) THEN <<>>
        ELSE IF rp = "None" THEN <<r>>
        ELSE IF fp = "None" THEN <<r, f>>
        ELSE <<r, f, c>>

\* The three updateResiduals statements in order, up to and including the
\* first one on a plotter that is None.
Updates(st, rp, fp, cp) ==
    LET r == UpdateResiduals("residual_plotter", rp,
                             OrderedDict(ResidualLabels, ResidualNames, st.series))
        f == UpdateResiduals("forces_plotter", fp,
                             OrderedDict(ForceLabels, ForceNames, st.series))
        c == UpdateResiduals("force_coeffs_plotter", cp,
                             OrderedDict(CoeffLabels, CoeffNames, st.series))
    IN  IF st.raised # "none" \/ ~PlotDue(st) THEN <<>>
        ELSE IF rp = "None" THEN <<r>>
        ELSE IF fp = "None" THEN <<r, f>>
        ELSE <<r, f, c>>

\* The exception process_output ends with: the one of the loop, else the
\* AttributeError of an updateResiduals on None.
Raises(st, calls) ==
    IF st.raised # "none" THEN st.raised
    ELSE IF \E i \in 1..Len(calls) : calls[i].plotter = "None" THEN "AttributeError"
    ELSE "none"

(***************************************************************************)
(* The solver logs.  A line is [indent, split, trail]: whether blanks      *)
(* precede its first token, its tokens, whether a blank follows the last.  *)
(***************************************************************************)
Line(tokens) == [indent |-> FALSE, split |-> tokens, trail |-> FALSE]

W(a) == <<a>>

\* "Time = 1"
TimeLine == Line(<<W("Time"), W("="), W("1")>>)

\* "  Time = 1": the same tokens after leading blanks.
IndentedTimeLine == [indent |-> TRUE, split |-> TimeLine.split, trail |-> FALSE]

\* "Time = ": the prefix alone.
BareTimeLine == [indent |-> FALSE, split |-> <<W("Time"), W("=")>>, trail |-> TRUE]

\* "": the last item of text.split('\n') when text ends with a newline.
EmptyLine == Line(<<>>)

\* "smoothSolver: Solving for <field>, Initial residual = <value> Final"
SolvingLine(field, value) ==
    Line(<<W("smoothSolver:"), W("Solving"), W("for"), <<field, ",">>,
           W("Initial"), W("residual"), W("="), value, W("Final")>>)

\* "smoothSolver: Solving for <field>,": the line cut short.
ShortLine(field) ==
    Line(<<W("smoothSolver:"), W("Solving"), W("for"), <<field, ",">>>>)

\* "DICPCG: Solving for p, p_rgh, residual = 21, Final": both pressure
\* tokens on one line.
BothPressuresLine ==
    Line(<<W("DICPCG:"), W("Solving"), W("for"), <<"p", ",">>, <<"p_rgh", ",">>,
           W("residual"), W("="), <<"2", "1", ",">>, W("Final")>>)

\* "GMRES iteration: 0 Residual: <rho> <ux> <uy> <uz> <e>"
ResidualLine(rho, ux, uy, uz, e) ==
    Line(<<W("GMRES"), W("iteration:"), W("0"), W("Residual:"), rho, ux, uy, uz, e>>)

\* "<word> : <x> <y> <z>"
ForceLine(word, x, y, z) == Line(<<W(word), W(":"), x, y, z>>)

\* "<word> = <value>"
CoeffLine(word, value) == Line(<<W(word), W("="), value>>)

\* The logs of the modelled runs, by the kind of solver run.
Solvers ==
    {"simpleFoam", "buoyantFoam", "truncated", "velocity", "hisa", "kEpsilon",
     "transition", "forces", "forceCoeffs"}

Lines(kind) ==
    CASE kind = "simpleFoam" ->
            {TimeLine, EmptyLine,
             SolvingLine("Ux", <<"1", ",">>), SolvingLine("Ux", <<"2", ",">>)}
      [] kind = "buoyantFoam" ->
            {TimeLine, SolvingLine("p", <<"1", ",">>),
             SolvingLine("p_rgh", <<"2", ",">>),
             SolvingLine("h", <<"1", "2", ",", "x">>), BothPressuresLine}
      [] kind = "truncated" ->
            {BareTimeLine, IndentedTimeLine, SolvingLine("Ux", <<"1", ",">>),
             SolvingLine("Ux", <<"x", ",">>), ShortLine("Ux")}
      [] kind = "velocity" ->
            {TimeLine, SolvingLine("Uy", <<"1", ",">>), SolvingLine("Uz", <<"2">>)}
      [] kind = "hisa" ->
            {TimeLine,
             ResidualLine(<<"1">>, <<"(", "(", "2">>, <<"1", "1">>,
                          <<"1", "2", ")">>, <<"2", "1">>),
             ResidualLine(<<"1">>, <<"(", "2">>, <<"x">>, <<"1", ")">>, <<"2">>),
             SolvingLine("Ux", <<"1", ",">>)}
      [] kind = "kEpsilon" ->
            {TimeLine, SolvingLine("k", <<"1", ",">>),
             SolvingLine("epsilon", <<"1", ",">>), SolvingLine("omega", <<"1", ",">>)}
      [] kind = "transition" ->
            {TimeLine, SolvingLine("nuTilda", <<"1", ",">>),
             SolvingLine("gammaInt", <<"1", ",">>),
             SolvingLine("ReThetat", <<"1", ",">>)}
      [] kind = "forces" ->
            {TimeLine,
             ForceLine("Pressure", <<"(", "1">>, <<"2">>, <<"1", "1", ")">>),
             ForceLine("Pressure", <<"(", "1">>, <<"x">>, <<"2", ")">>),
             ForceLine("Viscous", <<"(", "2">>, <<"1">>, <<"1", "2", ")">>)}
      [] kind = "forceCoeffs" ->
            {TimeLine, CoeffLine("Cd", <<"1">>), CoeffLine("Cl", <<"2">>),
             Line(<<W("Cd"), W("Cl"), <<"x">>>>)}
      [] OTHER -> {}

\* text.split('\n') of the chunks process_output is handed: 1..MaxChunk lines.
Chunks(kind) ==
    UNION {[1..n -> Lines(kind)] : n \in 1..MaxChunk}

\* The "Time = " lines of a chunk.
TimeLines(lines) == Cardinality({i \in 1..Len(lines) : StartsWithTime(lines[i])})

\* The decodes the loop can perform on a line with these tokens: <<item, rule>>.
Reads(split) ==
    (IF \E f \in {"Ux", "Uy", "Uz", "p", "p_rgh", "h", "k", "epsilon", "omega",
                  "nuTilda", "gammaInt", "ReThetat"} : In(<<f, ",">>, split)
     THEN {<<7, "split0">>} ELSE {})
    \cup
    (IF In(<<"Residual:">>, split)
     THEN {<<4, "plain">>, <<5, "lstrip">>, <<6, "plain">>, <<7, "rstrip">>,
           <<8, "plain">>}
     ELSE {})
    \cup
    (IF In(<<"Pressure">>, split) \/ In(<<"Viscous">>, split)
     THEN {<<2, "noopen">>, <<3, "plain">>, <<4, "noclose">>} ELSE {})
    \cup
    (IF In(<<"Cd">>, split) \/ In(<<"Cl">>, split) THEN {<<2, "plain">>} ELSE {})

\* Every token the loop can decode on this line is there and is a float.
WellFormedLine(line) ==
    \A r \in Reads(line.split) :
        /\ r[1] < Len(line.split)
        /\ IsFloat(Convert(r[2], line.split[r[1] + 1]))

WellFormedText(lines) == \A i \in 1..Len(lines) : WellFormedLine(lines[i])

(***************************************************************************)
(* The scenarios whose lines are remembered in `fed`: "Time = " lines      *)
(* alternating with "Ux," lines, two "Time = " lines and one "Ux," line,   *)
(* and "p," then "p_rgh," in successive timesteps.                         *)
(***************************************************************************)
UxLine(v) == SolvingLine("Ux", <<v, ",">>)

PLine == SolvingLine("p", <<"1", ",">>)

PrghLine == SolvingLine("p_rgh", <<"2", ",">>)

IsPrefix(s, t) == Len(s) <= Len(t) /\ s = SubSeq(t, 1, Len(s))

Alternating(s) ==
    \A i \in 1..Len(s) :
        IF i % 2 = 1 THEN s[i] = TimeLine ELSE \E v \in Digits : s[i] = UxLine(v)

Scenario(s) ==
    \/ Alternating(s)
    \/ \E v \in Digits : IsPrefix(s, <<TimeLine, TimeLine, UxLine(v)>>)
    \/ IsPrefix(s, <<TimeLine, PLine, TimeLine, PrghLine>>)
    \/ IsPrefix(s, <<TimeLine, TimeLine, PLine, TimeLine, PrghLine>>)

Feed(f, lines) ==
    IF f.ok /\ Scenario(f.lines \o lines)
    THEN [ok |-> TRUE, lines |-> f.lines \o lines]
    ELSE [ok |-> FALSE, lines |-> <<>>]

(***************************************************************************)
(* The operations.                                                         *)
(***************************************************************************)

\* CfdRunnableFoam.__init__: the flags follow the function objects of the
\* analysis, the plotters are None, the lists are empty.
Constructed ==
    /\ \E types \in SUBSET {"Force", "ForceCoefficients"} :
          /\ forces_plot = ("Force" \in types)
          /\ force_coeffs_plot = ("ForceCoefficients" \in types)
    /\ residual_plotter = "None"
    /\ forces_plotter = "None"
    /\ force_coeffs_plotter = "None"
    /\ niter = 0
    /\ series = EmptySeries
    /\ solver = "none"
    /\ op = "__init__"
    /\ raised = "none"
    /\ updated = <<>>
    /\ since = [n \in SeriesNames |-> 0]
    /\ wellformed = TRUE
    /\ fed = [ok |-> TRUE, lines |-> <<>>]
    /\ discarded = FALSE

\* The object after construction, no history recorded.
Init == Constructed /\ history = FALSE

\* The object after construction, `since` recorded.
InitHistory == Constructed /\ history = TRUE

\* get_solver_cmd without its call of initMonitors: the lists of the residuals
\* and niter are reset, the lists of the monitors are kept.
get_solver_cmd_residuals(kind) ==
    /\ niter' = 0
    /\ series' = [n \in SeriesNames |->
                     IF n \in Range(ResidualNames) THEN <<>> ELSE series[n]]
    /\ residual_plotter' = "ResidualPlot"
    /\ forces_plotter' = IF forces_plot THEN "ForcesPlot" ELSE forces_plotter
    /\ force_coeffs_plotter' =
          IF force_coeffs_plot THEN "ForceCoeffsPlot" ELSE force_coeffs_plotter
    /\ solver' = kind
    /\ op' = "get_solver_cmd"
    /\ raised' = "none"
    /\ updated' = <<>>
    /\ since' = [n \in SeriesNames |-> 0]
    /\ wellformed' = TRUE
    /\ fed' = [ok |-> TRUE, lines |-> <<>>]
    /\ discarded' = (niter > 0 /\ series # EmptySeries)
    /\ UNCHANGED <<forces_plot, force_coeffs_plot, history>>

\* get_solver_cmd: the lists and niter are reset and the plotters of the
\* enabled plots are created; the run that follows writes a log of `kind`.
get_solver_cmd(kind) ==
    /\ niter' = 0
    /\ series' = EmptySeries
    /\ residual_plotter' = "ResidualPlot"
    /\ forces_plotter' = IF forces_plot THEN "ForcesPlot" ELSE forces_plotter
    /\ force_coeffs_plotter' =
          IF force_coeffs_plot THEN "ForceCoeffsPlot" ELSE force_coeffs_plotter
    /\ solver' = kind
    /\ op' = "get_solver_cmd"
    /\ raised' = "none"
    /\ updated' = <<>>
    /\ since' = [n \in SeriesNames |-> 0]
    /\ wellformed' = TRUE
    /\ fed' = [ok |-> TRUE, lines |-> <<>>]
    /\ discarded' = (niter > 0 /\ series # EmptySeries)
    /\ UNCHANGED <<forces_plot, force_coeffs_plot, history>>

\* The state the loop of process_output starts from.
Self == [niter |-> niter, series |-> series, raised |-> "none", since |-> since]

\* process_output(text), lines being text.split('\n'): called once the run
\* was started by get_solver_cmd.
process_output(lines) ==
    /\ residual_plotter # "None"
    /\ niter + TimeLines(lines) <= MaxIter
    /\ \E st \in {Loop(Self, lines)} :
       \E calls \in {Updates(st, residual_plotter, forces_plotter,
                             force_coeffs_plotter)} :
           /\ niter' = st.niter
           /\ series' = st.series
           /\ since' = st.since
           /\ raised' = Raises(st, calls)
           /\ updated' = calls
    /\ op' = "process_output"
    /\ wellformed' = (wellformed /\ WellFormedText(lines))
    /\ fed' = Feed(fed, lines)
    /\ discarded' = FALSE
    /\ UNCHANGED <<forces_plot, force_coeffs_plot, residual_plotter,
                   forces_plotter, force_coeffs_plotter, solver, history>>

Next ==
    \/ \E kind \in Solvers : get_solver_cmd(kind)
    \/ \E lines \in Chunks(solver) : process_output(lines)

Spec == Init /\ [][Next]_vars

SpecHistory == InitHistory /\ [][Next]_vars

(***************************************************************************)
(* Properties.                                                             *)
(***************************************************************************)

\* The chunks process_output can be handed in the current state.
Inputs == IF residual_plotter = "None" THEN {} ELSE Chunks(solver)

\* The plotter self.<attr> was updated by the last call.
Notified(attr) ==
    \E i \in 1..Len(updated) : updated[i].attr = attr /\ updated[i].plotter # "None"

\* The last call reached the updateResiduals statement of self.<attr>.
Attempted(attr) == \E i \in 1..Len(updated) : updated[i].attr = attr

\* C1: the length of every series is at most niter, and a series whose
\* length equals niter receives no append from a line that is no "Time = "
\* line, whatever lines are processed (logs mixing "Ux," and "Residual:"
\* lines included).
C1_LengthWithinCounter ==
    /\ \A n \in SeriesNames : Len(series[n]) <= niter
    /\ \A lines \in Inputs :
          LET tr == Trace(Self, lines)
          IN  \A i \in 1..(Len(tr) - 1) : \A n \in SeriesNames :
                 (~StartsWithTime(lines[i]) /\ Len(tr[i].series[n]) = tr[i].niter)
                    => tr[i + 1].series[n] = tr[i].series[n]

\* C2: between two consecutive "Time = " lines, over any number of calls, at
\* most one value is appended to each series.
C2_OnePerTimestep == \A n \in SeriesNames : since[n] <= 1

\* The lines fed since the reset are exactly s.
Fed(s) == fed.ok /\ fed.lines = s

\* The residual plotter was updated with the list of label being data.
ResidualShown(label, data) ==
    \E i \in 1..Len(updated) :
        /\ updated[i].attr = "residual_plotter"
        /\ updated[i].plotter # "None"
        /\ \E j \in 1..Len(updated[i].data) : updated[i].data[j] = <<label, data>>

\* C3 as stated: after one "Time = " line and one "Ux," line carrying V the
\* velocity-x series is [V] and the residual plotter was updated with it.
C3_Original ==
    \A v \in Digits :
        Fed(<<TimeLine, UxLine(v)>>)
            => /\ series["UxResiduals"] = <<DigitValue(v)>>
               /\ ResidualShown("$U_x$", <<DigitValue(v)>>)

\* C3 amended: after one "Time = " line and one "Ux," line the velocity-x
\* series is empty and no plotter was updated; after two "Time = " lines and
\* one "Ux," line carrying V the series is [V] and the residual plotter was
\* updated with it.
C3_SecondTimestep ==
    \A v \in Digits :
        /\ Fed(<<TimeLine, UxLine(v)>>)
              => series["UxResiduals"] = <<>> /\ updated = <<>>
        /\ Fed(<<TimeLine, TimeLine, UxLine(v)>>)
              => /\ series["UxResiduals"] = <<DigitValue(v)>>
                 /\ ResidualShown("$U_x$", <<DigitValue(v)>>)

C3_Witness ==
    /\ Fed(<<TimeLine, TimeLine, UxLine("2")>>)
    /\ op = "process_output"
    /\ series["UxResiduals"] = <<2>>

\* The values V1..VN of the "Ux," lines of N pairs of a "Time = " line and
\* a "Ux," line.
UxValues(s) == [i \in 1..(Len(s) \div 2) |-> FloatOf(SplitComma0(s[2 * i].split[8]))]

\* The lines fed are N >= 1 pairs of a "Time = " line and a "Ux," line.
FedPairs == fed.ok /\ Alternating(fed.lines) /\ Len(fed.lines) % 2 = 0 /\ fed.lines # <<>>

\* C4 as stated: N pairs of a "Time = " line and a "Ux," line yield the
\* velocity-x series [V1, ..., VN].
C4_Original == FedPairs => series["UxResiduals"] = UxValues(fed.lines)

\* C4 amended: N pairs of a "Time = " line and a "Ux," line yield the
\* velocity-x series [V2, ..., VN], of length N - 1, in the order fed.
C4_AllButFirst == FedPairs => series["UxResiduals"] = Tail(UxValues(fed.lines))

C4_Witness ==
    /\ FedPairs
    /\ Len(fed.lines) = 6
    /\ op = "process_output"
    /\ series["UxResiduals"] = <<1, 2>>

\* C5 as stated: "Time = ", "p,", "Time = ", "p_rgh," leave the pressure
\* series with the two values, in that order.
C5_Original ==
    Fed(<<TimeLine, PLine, TimeLine, PrghLine>>) => series["pResiduals"] = <<1, 2>>

\* C5 amended: "Time = ", "p,", "Time = ", "p_rgh," leave the pressure series
\* with the "p_rgh," value alone; after one more "Time = " line in front the
\* series holds the "p," value and then the "p_rgh," value.
C5_SharedPressure ==
    /\ Fed(<<TimeLine, PLine, TimeLine, PrghLine>>) => series["pResiduals"] = <<2>>
    /\ Fed(<<TimeLine, TimeLine, PLine, TimeLine, PrghLine>>)
          => series["pResiduals"] = <<1, 2>>

C5_Witness ==
    /\ Fed(<<TimeLine, TimeLine, PLine, TimeLine, PrghLine>>)
    /\ op = "process_output"
    /\ Len(series["pResiduals"]) = 2

\* The lists whose guard decides an append to list n: n itself where a
\* trigger tests it, rhoResiduals for the lists of the coupled residuals,
\* the x list for the y and z lists of a force.
GuardsOf(n) ==
    CASE n \in {"UxResiduals", "UyResiduals", "UzResiduals", "EResiduals"}
            -> {n, "rhoResiduals"}
      [] n \in {"pressureYResiduals", "pressureZResiduals"} -> {"pressureXResiduals"}
      [] n \in {"viscousYResiduals", "viscousZResiduals"} -> {"viscousXResiduals"}
      [] OTHER -> {n}

\* C6 as stated: a chunk without a "Time = " line leaves niter and the length
\* of every series unchanged.
C6_Original ==
    \A lines \in Inputs :
        TimeLines(lines) = 0
            => LET st == Loop(Self, lines)
               IN  /\ st.niter = niter
                   /\ \A n \in SeriesNames : Len(st.series[n]) = Len(series[n])

\* C6 amended: a chunk without a "Time = " line leaves niter unchanged, and
\* leaves unchanged every series none of whose guard lists lags niter by two
\* or more (a series whose guard list lags by two or more can grow).
C6_NoMarkerNoStep ==
    \A lines \in Inputs :
        TimeLines(lines) = 0
            => LET st == Loop(Self, lines)
               IN  /\ st.niter = niter
                   /\ \A n \in SeriesNames :
                         (\A g \in GuardsOf(n) : Len(series[g]) >= niter - 1)
                            => st.series[n] = series[n]

\* After a call: one chunk without a "Time = " line makes a lagging series
\* grow, another holds a "p," line and leaves the pressure series, which does
\* not lag, as it is.
C6_Witness ==
    /\ op = "process_output"
    /\ niter >= 2
    /\ Len(series["pResiduals"]) = niter - 1
    /\ \E lines \in Inputs :
          /\ TimeLines(lines) = 0
          /\ \E n \in SeriesNames : Len(Loop(Self, lines).series[n]) > Len(series[n])
    /\ \E lines \in Inputs :
          /\ TimeLines(lines) = 0
          /\ \E i \in 1..Len(lines) : In(<<"p", ",">>, lines[i].split)
          /\ Loop(Self, lines).niter = niter
          /\ Loop(Self, lines).series["pResiduals"] = series["pResiduals"]

\* C7: after a process_output call that got past its loop with niter > 1 the
\* forces plotter was updated exactly if forces_plot, the force-coefficients
\* plotter exactly if force_coeffs_plot, and without forces_plot the update of
\* the forces plotter was not attempted.
C7_MonitorsFollowFlags ==
    (op = "process_output" /\ niter > 1 /\ raised \notin {"ValueError", "IndexError"})
        => /\ Notified("forces_plotter") <=> forces_plot
           /\ Notified("force_coeffs_plotter") <=> force_coeffs_plot
           /\ ~forces_plot => ~Attempted("forces_plotter")

\* C8: after a reset, whatever the two flags, a process_output call returns
\* normally as long as every line fed decodes at every position read.
C8_OnlyDecodeFailures ==
    (op = "process_output" /\ wellformed) => raised = "none"

\* C9: a process_output call that returns normally updates the residual
\* plotter exactly once if niter > 1 and not at all otherwise; the update
\* comes after the loop and carries the whole of every residual series as
\* it is then, in the order of the plot.
C9_ResidualSnapshot ==
    (op = "process_output" /\ raised = "none")
        => IF niter > 1
           THEN /\ Cardinality({i \in 1..Len(updated) :
                                  updated[i].attr = "residual_plotter"}) = 1
                /\ updated[1].attr = "residual_plotter"
                /\ updated[1].plotter = "ResidualPlot"
                /\ Len(updated[1].data) = Len(ResidualNames)
                /\ \A j \in 1..Len(ResidualNames) :
                      updated[1].data[j] = <<ResidualLabels[j], series[ResidualNames[j]]>>
           ELSE updated = <<>>

C9_Witness ==
    /\ op = "process_output"
    /\ raised = "none"
    /\ niter > 1
    /\ Notified("residual_plotter")
    /\ series["UxResiduals"] = <<1, 2>>

\* The five lists of the coupled residuals with the item of split each value
\* is taken from and the text float() is handed.
CoupledItems(split) ==
    {<<"rhoResiduals", split[5]>>, <<"UxResiduals", LStripParen(split[6])>>,
     <<"UyResiduals", split[7]>>, <<"UzResiduals", RStripParen(split[8])>>,
     <<"EResiduals", split[9]>>}

\* C10: when the loop reaches the "Residual:" test of a line that holds the
\* token, with five floats at items 4..8: if rhoResiduals lags (its length is
\* below niter - 1) the line appends exactly the value of item 4 to
\* rhoResiduals, of item 5 without its leading "(" to UxResiduals, of item 6
\* to UyResiduals, of item 7 without its trailing ")" to UzResiduals and of
\* item 8 to EResiduals; if it does not lag the token changes none of them.
C10_CoupledResiduals ==
    \A lines \in Inputs :
        LET tr == Trace(Self, lines)
        IN  \A i \in 1..(Len(tr) - 1) :
              LET split == lines[i].split
                  pre == Segregated(tr[i], lines[i])
              IN  (/\ In(<<"Residual:">>, split)
                   /\ pre.raised = "none"
                   /\ Len(split) >= 9
                   /\ \A it \in CoupledItems(split) : IsFloat(it[2]))
                     => \A it \in CoupledItems(split) :
                           tr[i + 1].series[it[1]] =
                              IF Len(pre.series["rhoResiduals"]) < pre.niter - 1
                              THEN Append(pre.series[it[1]], FloatOf(it[2]))
                              ELSE pre.series[it[1]]

C10_Witness ==
    /\ op = "process_output"
    /\ raised = "none"
    /\ series["rhoResiduals"] = <<1>>
    /\ series["UxResiduals"] = <<2>>
    /\ series["UyResiduals"] = <<11>>
    /\ series["UzResiduals"] = <<12>>
    /\ series["EResiduals"] = <<21>>
\* The token at split[2] is there and float() rejects it.
BadCoefficient(split) == Len(split) > 2 /\ ~IsFloat(split[3])

\* The lines process_output can be handed in the current state: each is a
\* chunk of its own, and the state is one a longer chunk can be in before it.
InputLines == IF residual_plotter = "None" THEN {} ELSE Lines(solver)

\* C11 as stated: in every reachable state, a line that holds the token "Cd"
\* with a token float() rejects at split[2] makes process_output raise
\* ValueError and leaves clResiduals unchanged.
C11_Original ==
    \A line \in InputLines :
        LET pre == Monitored(Self, line)
            post == ProcessLine(Self, line)
        IN  (/\ In(<<"Cd">>, line.split) /\ BadCoefficient(line.split)
             /\ pre.raised = "none")
               => /\ post.raised = "ValueError"
                  /\ post.series["clResiduals"] = pre.series["clResiduals"]

\* C11: when the loop reaches the "Cd" test of a line that holds the token
\* with a token float() rejects at split[2], the line raises ValueError
\* exactly when cdResiduals lags (its length is below niter - 1), or the line
\* also holds "Cl" and clResiduals lags; otherwise the token is not decoded
\* and nothing is raised. In every case cdResiduals and clResiduals are
\* left unchanged.
C11_CdDecodedWhenLagging ==
    \A line \in InputLines :
        LET pre == Monitored(Self, line)
            post == ProcessLine(Self, line)
            lags(n) == Len(pre.series[n]) < pre.niter - 1
        IN  (/\ In(<<"Cd">>, line.split) /\ BadCoefficient(line.split)
             /\ pre.raised = "none")
               => /\ post.raised =
                        IF \/ lags("cdResiduals")
                           \/ In(<<"Cl">>, line.split) /\ lags("clResiduals")
                        THEN "ValueError" ELSE "none"
                  /\ post.series["cdResiduals"] = pre.series["cdResiduals"]
                  /\ post.series["clResiduals"] = pre.series["clResiduals"]

\* A call fed "Cd Cl x" failed on a lagging drag series, the lift series
\* keeping the value it had.
C11_Witness ==
    /\ op = "process_output"
    /\ solver = "forceCoeffs"
    /\ raised = "ValueError"
    /\ series["cdResiduals"] = <<>>
    /\ series["clResiduals"] = <<2>>

\* ValueError of float() and IndexError of split[i].
DecodeErrors == {"ValueError", "IndexError"}

\* The lines handled one after another from st, each by one pass of the
\* loop body.
RECURSIVE Handled(_, _)
Handled(st, lines) ==
    IF lines = <<>> THEN st ELSE Handled(ProcessLine(st, Head(lines)), Tail(lines))

\* C12: when lines 1..i-1 of a chunk are handled without an exception and
\* a decode of line i fails, process_output raises that exception, and the
\* counter and the lists it leaves are those left by lines 1..i-1 followed by
\* the pass over line i up to the failing decode: what lines 1..i-1 appended
\* and counted is kept, and neither the rest of line i nor any later line of
\* the chunk ("Time = " lines included) changes anything. Only a chunk with
\* a line that does not decode everywhere can fail (C15 covers the others).
C12_PartialApplication ==
    \A lines \in {c \in Inputs : ~WellFormedText(c)} : \A i \in 1..Len(lines) :
        LET before == Handled(Self, SubSeq(lines, 1, i - 1))
            failed == ProcessLine(before, lines[i])
            out == Loop(Self, lines)
        IN  (before.raised = "none" /\ failed.raised \in DecodeErrors)
               => /\ out.niter = failed.niter
                  /\ out.series = failed.series
                  /\ out.niter = before.niter
                                 + (IF StartsWithTime(lines[i]) THEN 1 ELSE 0)
                  /\ \A n \in SeriesNames :
                        /\ IsPrefix(before.series[n], out.series[n])
                        /\ Len(out.series[n]) <= Len(before.series[n]) + 1
                  /\ Raises(out, Updates(out, residual_plotter, forces_plotter,
                                         force_coeffs_plotter)) = failed.raised

\* A call failed on item 6 of a "Residual:" line after the values of items 4
\* and 5 were appended; nothing followed them.
C12_Witness ==
    /\ op = "process_output"
    /\ raised = "ValueError"
    /\ niter = 2
    /\ series["rhoResiduals"] = <<1>>
    /\ series["UxResiduals"] = <<2>>
    /\ series["UyResiduals"] = <<>>
    /\ series["UzResiduals"] = <<>>
    /\ series["EResiduals"] = <<>>

\* C13: the state get_solver_cmd leaves, whatever state it is called in:
\* niter is 0 and every list of the residuals, the forces and the force
\* coefficients is empty, and the plotters are those of the flags, as after
\* the first get_solver_cmd of a newly constructed object with these flags.
C13_ResetToFresh ==
    op = "get_solver_cmd"
       => /\ niter = 0
          /\ \A n \in SeriesNames : series[n] = <<>>
          /\ residual_plotter = "ResidualPlot"
          /\ forces_plotter = (IF forces_plot THEN "ForcesPlot" ELSE "None")
          /\ force_coeffs_plotter =
                (IF force_coeffs_plot THEN "ForceCoeffsPlot" ELSE "None")

\* get_solver_cmd was called after a run that had counted timesteps and
\* stored values.
C13_Witness == op = "get_solver_cmd" /\ discarded /\ niter = 0

\* The fourteen triggers that append one value, in the order the loop tests
\* them: the token, the list, the item of split, what float() is handed.
SingleValueTriggers ==
    <<[token |-> <<"Ux", ",">>, name |-> "UxResiduals", item |-> 7, rule |-> "split0"],
      [token |-> <<"Uy", ",">>, name |-> "UyResiduals", item |-> 7, rule |-> "split0"],
      [token |-> <<"Uz", ",">>, name |-> "UzResiduals", item |-> 7, rule |-> "split0"],
      [token |-> <<"p", ",">>, name |-> "pResiduals", item |-> 7, rule |-> "split0"],
      [token |-> <<"p_rgh", ",">>, name |-> "pResiduals", item |-> 7, rule |-> "split0"],
      [token |-> <<"h", ",">>, name |-> "EResiduals", item |-> 7, rule |-> "split0"],
      [token |-> <<"k", ",">>, name |-> "kResiduals", item |-> 7, rule |-> "split0"],
      [token |-> <<"epsilon", ",">>, name |-> "epsilonResiduals", item |-> 7,
       rule |-> "split0"],
      [token |-> <<"omega", ",">>, name |-> "omegaResiduals", item |-> 7,
       rule |-> "split0"],
      [token |-> <<"nuTilda", ",">>, name |-> "nuTildaResiduals", item |-> 7,
       rule |-> "split0"],
      [token |-> <<"gammaInt", ",">>, name |-> "gammaIntResiduals", item |-> 7,
       rule |-> "split0"],
      [token |-> <<"ReThetat", ",">>, name |-> "ReThetatResiduals", item |-> 7,
       rule |-> "split0"],
      [token |-> <<"Cd">>, name |-> "cdResiduals", item |-> 2, rule |-> "plain"],
      [token |-> <<"Cl">>, name |-> "clResiduals", item |-> 2, rule |-> "plain"]>>

\* Triggers first..last tested one after another on a line whose decodes all
\* succeed: a trigger appends the value of its item to its list if and only
\* if its token is in the line and the list, as it is when the trigger is
\* tested, is shorter than niter - 1.
RECURSIVE Tested(_, _, _, _)
Tested(st, split, first, last) ==
    IF first > last THEN st
    ELSE LET t == SingleValueTriggers[first]
             s == st.series[t.name]
             value == FloatOf(Convert(t.rule, split[t.item + 1]))
         IN  Tested(IF In(t.token, split) /\ Len(s) < st.niter - 1
                    THEN [st EXCEPT !.series[t.name] = Append(s, value)]
                    ELSE st,
                    split, first + 1, last)

\* C15: on a line whose decodes all succeed, each of the fourteen
\* single-value triggers appends exactly one value to its list if and only if
\* its token is in the line and the list is shorter than niter - 1, niter
\* being the counter after the increment of a "Time = " line and the length
\* the one the list has when the trigger is tested (after the appends of the
\* triggers tested before it on the same line); the "Residual:", "Pressure"
\* and "Viscous" blocks act between them where the code has them.
C15_SingleValueTriggers ==
    \A line \in InputLines :
        LET split == line.split
            counted == [Self EXCEPT !.niter =
                           @ + (IF StartsWithTime(line) THEN 1 ELSE 0)]
            a == Coupled(Tested(counted, split, 1, 6), split)
            b == Tested(a, split, 7, 12)
            c == Force(b, split, "Pressure", "pressureXResiduals",
                       "pressureYResiduals", "pressureZResiduals")
            d == Force(c, split, "Viscous", "viscousXResiduals",
                       "viscousYResiduals", "viscousZResiduals")
            e == Tested(d, split, 13, 14)
            post == ProcessLine(Self, line)
        IN  WellFormedLine(line)
               => /\ post.raised = "none"
                  /\ post.niter = e.niter
                  /\ post.series = e.series

\* After two "Time = " lines the line holding both "p," and "p_rgh," gave
\* pResiduals one value: the "p_rgh," trigger found the list no longer short.
C15_Witness ==
    /\ op = "process_output"
    /\ solver = "buoyantFoam"
    /\ raised = "none"
    /\ niter = 2
    /\ series["pResiduals"] = <<21>>

\* C16: every step that is no get_solver_cmd call (a process_output call,
\* returning or raising) leaves each list with its former content as a
\* prefix and niter at least as large as it was; a step that shortens a list
\* or lowers niter is a get_solver_cmd call.
C16_AppendOnly ==
    [][/\ op' = "process_output"
          => /\ niter' >= niter
             /\ \A n \in SeriesNames : IsPrefix(series[n], series'[n])
       /\ (\/ niter' < niter
           \/ \E n \in SeriesNames : Len(series'[n]) < Len(series[n]))
          => op' = "get_solver_cmd"]_vars

\* A call that raised ValueError on "Ux, ... x," in the third timestep, the
\* value stored by an earlier line still in the list.
C16_Witness ==
    /\ op = "process_output"
    /\ solver = "truncated"
    /\ raised = "ValueError"
    /\ niter = 3
    /\ series["UxResiduals"] = <<1>>

\* The lists of the x, y and z components have the same length.
Aligned(x, y, z) ==
    Len(series[x]) = Len(series[y]) /\ Len(series[y]) = Len(series[z])

\* A decode failure left y, or y and z, one value behind x.
Trailing(x, y, z) ==
    /\ Len(series[z]) <= Len(series[y])
    /\ Len(series[y]) <= Len(series[x])

Resumed(st) ==
    [niter |-> st.niter, series |-> st.series, raised |-> "none", since |-> st.since]

\* C18: for lines that all decode, handing process_output a chunk whole or
\* cut at any line boundary into two chunks handed one after the other (and
\* so, cut by cut, into any number of whole-line chunks) leaves the same
\* niter and the same content of every list.
C18_ChunkingIndependence ==
    \A lines \in {c \in Inputs : WellFormedText(c)} :
        \A k \in 1..(Len(lines) - 1) :
            LET whole == Loop(Self, lines)
                first == Loop(Self, SubSeq(lines, 1, k))
                second == Loop(Resumed(first), SubSeq(lines, k + 1, Len(lines)))
            IN  /\ first.raised = "none"
                /\ second.raised = "none"
                /\ whole.niter = second.niter
                /\ whole.series = second.series

\* A state with a chunk of two lines that decode, the first counting a
\* timestep and the second storing a value: cut or whole, it can be fed here.
C18_Witness ==
    /\ op = "process_output"
    /\ \E lines \in Inputs :
          /\ Len(lines) = 2
          /\ WellFormedText(lines)
          /\ niter + TimeLines(lines) <= MaxIter
          /\ Loop(Self, SubSeq(lines, 1, 1)).niter = niter + 1
          /\ Loop(Self, lines).series # series
          /\ Loop(Self, SubSeq(lines, 2, 2)).series = series

\* C19: a process_output call that raises ValueError or IndexError updates
\* no plotter, also when niter > 1 and lines of the chunk before the failing
\* one appended values; the lists keep those values for the update of a
\* later call.
C19_NoUpdateOnFailure ==
    (op = "process_output" /\ raised \in DecodeErrors)
       => /\ updated = <<>>
          /\ \A attr \in {"residual_plotter", "forces_plotter", "force_coeffs_plotter"} :
                ~Attempted(attr)

\* A call raised IndexError on the cut "Ux," line with niter > 1 and a
\* value in UxResiduals, and updated no plotter.
C19_Witness ==
    /\ op = "process_output"
    /\ solver = "truncated"
    /\ raised = "IndexError"
    /\ niter > 1
    /\ series["UxResiduals"] # <<>>
    /\ updated = <<>>

\* The lists that are appended to only under the guard on their own length.
OwnGuarded ==
    {"pResiduals", "kResiduals", "epsilonResiduals", "omegaResiduals",
     "nuTildaResiduals", "gammaIntResiduals", "ReThetatResiduals", "rhoResiduals",
     "pressureXResiduals", "viscousXResiduals", "cdResiduals", "clResiduals"}

\* C20: in every reachable state each list appended to only under the guard
\* on its own length holds at most max(0, niter - 1) values; so it holds none
\* while niter <= 1: the lines of the first timestep after a reset are not
\* recorded.
C20_OwnGuardedBound ==
    \A n \in OwnGuarded :
        /\ Len(series[n]) <= (IF niter >= 1 THEN niter - 1 ELSE 0)
        /\ niter <= 1 => series[n] = <<>>

\* In the third timestep kResiduals holds the two values the guard allows.
C20_Witness ==
    /\ op = "process_output"
    /\ solver = "kEpsilon"
    /\ niter = 3
    /\ series["kResiduals"] = <<1, 1>>
====
